---- MODULE Spec2Model ----
(***************************************************************************)
(* Model of the single-producer / multi-consumer logger of src/src/lib.rs. *)
(* Logger::write and Logger::read take `&mut self`, so each call is one    *)
(* atomic step on the Logger.  Buffer indices are 0-based in the source    *)
(* and 1-based in TLA+ sequences: messages[i] of the source is             *)
(* messages[i + 1] here.                                                   *)
(***************************************************************************)
EXTENDS Naturals, Integers, Sequences, FiniteSets, TLC

\* ---- bounds of the model ------------------------------------------------
MaxReaders == 2
MaxSize == 3
MaxWrites == 3

\* ---- values the calls are made with -------------------------------------
Threads == 1..(MaxReaders + 1)
Keys == {1, 2}
Data == {0, 1}

\* ---- the scenario of tests::it_works ------------------------------------
ScenarioReaders == 3
ScenarioSize == 100
ScenarioWrites == 10
ScenarioThreads == 1..ScenarioReaders

VARIABLES
    num_readers,   \* Logger.num_readers
    size,          \* Logger.size
    key,           \* Logger.key
    messages,      \* Logger.messages: sequence of Message
    readers,       \* Logger.readers: ThreadId -> cursor
    ret,           \* value returned by the last call
    op,            \* history: the last call (kind, caller or 0, message pushed or returned or 0, removed?)
    nextId,        \* history: number of messages written so far (message identity)
    delivered,     \* history: per thread, the identities of the messages read() returned to it
    callers,       \* history: threads that have called read()
    evicted,       \* history: identities of the messages removed from the buffer
    written,       \* history: per message in the buffer, the bytes given to write() and the tag signed then
    sched          \* position of the driver (free use, batch run, it_works scenario); cur 0: no reader at work

vars == <<num_readers, size, key, messages, readers, ret, op, nextId,
          delivered, callers, evicted, written, sched>>

\* ---- hmac (ring) ----------------------------------------------------------
\* hmac::sign: a deterministic tag bound to the key and to the bytes
Sign(k, bytes) == [k |-> k, digest |-> (2 * bytes + 1)]

\* slip: key and bytes passed in the wrong order
VerifyWrongOrder(k, bytes, tag) == Sign(bytes, k) = tag

\* hmac::verify(..).is_ok(): recompute the tag and compare
Verify(k, bytes, tag) == Sign(k, bytes) = tag

\* ---- return values --------------------------------------------------------
NoResponse == [message |-> 0, hash |-> [k |-> 0, digest |-> 0], is_valid |-> FALSE]
NoCall == [kind |-> "NoCall", code |-> 0, response |-> NoResponse]
OkUnit == [kind |-> "Ok", code |-> 0, response |-> NoResponse]
Err(c) == [kind |-> "Err", code |-> c, response |-> NoResponse]
OkNone == [kind |-> "None", code |-> 0, response |-> NoResponse]
OkSome(r) == [kind |-> "Some", code |-> 0, response |-> r]

\* the call panicked (index out of bounds) and returned nothing
Panicked == [kind |-> "Panic", code |-> 0, response |-> NoResponse]

\* Response { message, hash, is_valid }
Response(m, valid) == [message |-> m.bytes, hash |-> m.hash, is_valid |-> valid]

\* Message { bytes, hash, readers }; id is the history identity of the instance
Message(id, data, k) == [id |-> id, bytes |-> data, hash |-> Sign(k, data), readers |-> 0]

\* ---- helpers of write -----------------------------------------------------
\* slip: `>` for `>=`
BufferFullStrict(msgs, sz) == Len(msgs) > sz

\* self.messages.len() >= self.size
BufferFull(msgs, sz) == Len(msgs) >= sz

\* ---- helpers of read ------------------------------------------------------
\* slip: the limit taken one too high
TooManyReadersLate(rs, n) == Cardinality(DOMAIN rs) > n + 1

\* readers.len() > self.num_readers
TooManyReaders(rs, n) == Cardinality(DOMAIN rs) > n

\* slip: the lookup never finds the thread
ThreadCountZero(rs, t) == 0

\* match readers.get(&thread_id) { Some(&i) => i, None => 0 }
ThreadCount(rs, t) == IF t \in DOMAIN rs THEN rs[t] ELSE 0

\* slip: the `- 1` left out
AtEndLoose(msgs, tc) == Len(msgs) = 0 \/ (tc > 0 /\ tc > Len(msgs))

\* self.messages.is_empty() || thread_count > 0 && thread_count > self.messages.len() - 1
AtEnd(msgs, tc) == Len(msgs) = 0 \/ (tc > 0 /\ tc > Len(msgs) - 1)

\* slip: `>` for `>=`
ShouldRemoveStrict(current_readers, n) == current_readers > n

\* current_readers >= &mut self.num_readers
ShouldRemove(current_readers, n) == current_readers >= n

\* slip: the cursor never advanced
NewThreadCountNever(tc, removed) == tc

\* slip: the cursor advanced after a removal too
NewThreadCountAlways(tc, removed) == tc + 1

\* new_thread_count: unchanged when the message was removed, else + 1
NewThreadCount(tc, removed) == IF removed THEN tc ELSE tc + 1

\* slip: Vec::swap_remove, the last element takes the place of the removed one
RemoveAtSwap(msgs, index) ==
    [i \in 1..(Len(msgs) - 1) |-> IF i = index + 1 THEN msgs[Len(msgs)] ELSE msgs[i]]

\* Vec::remove(index): later elements shift one position to the head
RemoveAt(msgs, index) ==
    [i \in 1..(Len(msgs) - 1) |-> IF i < index + 1 THEN msgs[i] ELSE msgs[i + 1]]

\* slip: the clone's counter incremented, the buffer's own instance left as it was
FetchAddOnClone(msgs, index) == msgs

\* readers.fetch_add(1) on the buffer's own instance
FetchAdd(msgs, index) == [msgs EXCEPT ![index + 1].readers = @ + 1]

\* slip: every registered cursor set to the caller's
InsertClobber(rs, t, c) == [u \in (DOMAIN rs) \cup {t} |-> c]

\* HashMap::insert
Insert(rs, t, c) == [u \in (DOMAIN rs) \cup {t} |-> IF u = t THEN c ELSE rs[u]]

EmptyMap == [u \in {} |-> 0]

\* ---- Logger::new ------------------------------------------------------------
New(n, sz, k) ==
    /\ num_readers = n
    /\ size = sz
    /\ key = k
    /\ messages = <<>>
    /\ readers = EmptyMap
    /\ ret = NoCall
    /\ op = [kind |-> "new", t |-> 0, id |-> 0, removed |-> FALSE]
    /\ nextId = 0
    /\ delivered = [t \in Threads \cup ScenarioThreads |-> {}]
    /\ callers = {}
    /\ evicted = {}
    /\ written = EmptyMap

\* ---- Logger::write ------------------------------------------------------------
\* slip: the early return missing, the message is pushed before Err(1)
WriteRejectedPushes(data) ==
    /\ ret' = Err(1)
    /\ op' = [kind |-> "write", t |-> 0, id |-> 0, removed |-> FALSE]
    /\ messages' = Append(messages, Message(nextId + 1, data, key))
    /\ nextId' = nextId + 1

\* the buffer is full: return Err(1)
WriteRejected(data) ==
    /\ ret' = Err(1)
    /\ op' = [kind |-> "write", t |-> 0, id |-> 0, removed |-> FALSE]
    /\ UNCHANGED <<messages, nextId>>

\* slip: the message inserted at the head
WriteAppendFront(data) ==
    /\ messages' = <<Message(nextId + 1, data, key)>> \o messages
    /\ nextId' = nextId + 1
    /\ ret' = OkUnit
    /\ op' = [kind |-> "write", t |-> 0, id |-> nextId + 1, removed |-> FALSE]

\* sign the data, push the message, return Ok(())
WriteAppend(data) ==
    /\ messages' = Append(messages, Message(nextId + 1, data, key))
    /\ nextId' = nextId + 1
    /\ ret' = OkUnit
    /\ op' = [kind |-> "write", t |-> 0, id |-> nextId + 1, removed |-> FALSE]

Write(data) ==
    /\ IF BufferFull(messages, size) THEN WriteRejected(data) ELSE WriteAppend(data)
    /\ UNCHANGED <<num_readers, size, key, readers>>

\* ---- Logger::read -------------------------------------------------------------
\* slip: the caller registered before the quorum check
ReadRejectedRegisters(t) ==
    /\ ret' = Err(2)
    /\ op' = [kind |-> "read", t |-> t, id |-> 0, removed |-> FALSE]
    /\ readers' = Insert(readers, t, ThreadCount(readers, t))
    /\ UNCHANGED messages

\* more readers registered than the quorum: return Err(2)
ReadRejected(t) ==
    /\ ret' = Err(2)
    /\ op' = [kind |-> "read", t |-> t, id |-> 0, removed |-> FALSE]
    /\ UNCHANGED <<messages, readers>>

\* slip: the caller registered although nothing was returned
ReadAtEndRegisters(t) ==
    /\ ret' = OkNone
    /\ op' = [kind |-> "read", t |-> t, id |-> 0, removed |-> FALSE]
    /\ readers' = Insert(readers, t, ThreadCount(readers, t))
    /\ UNCHANGED messages

\* at the end of the buffer: return Ok(None)
ReadAtEnd(t) ==
    /\ ret' = OkNone
    /\ op' = [kind |-> "read", t |-> t, id |-> 0, removed |-> FALSE]
    /\ UNCHANGED <<messages, readers>>

\* self.messages[thread_count] with thread_count >= len: the index panics
ReadPanics(t) ==
    /\ ret' = Panicked
    /\ op' = [kind |-> "read", t |-> t, id |-> 0, removed |-> FALSE]
    /\ UNCHANGED <<messages, readers>>

\* clone the message, verify it, count the read, remove it or advance, register
ReadDeliver(t) ==
    LET thread_count == ThreadCount(readers, t)
        m == messages[thread_count + 1]
        is_valid == Verify(key, m.bytes, m.hash)
        counted == FetchAdd(messages, thread_count)
        current_readers == counted[thread_count + 1].readers
        removed == ShouldRemove(current_readers, num_readers)
    IN  /\ messages' = IF removed THEN RemoveAt(counted, thread_count) ELSE counted
        /\ readers' = Insert(readers, t, NewThreadCount(thread_count, removed))
        /\ ret' = OkSome(Response(m, is_valid))
        /\ op' = [kind |-> "read", t |-> t, id |-> m.id, removed |-> removed]

Read(t) ==
    /\ IF TooManyReaders(readers, num_readers) THEN ReadRejected(t)
       ELSE IF AtEnd(messages, ThreadCount(readers, t)) THEN ReadAtEnd(t)
       ELSE IF ThreadCount(readers, t) >= Len(messages) THEN ReadPanics(t)
       ELSE ReadDeliver(t)
    /\ UNCHANGED <<num_readers, size, key, nextId>>

\* ---- history of the calls ------------------------------------------------------
WriteHistory(data) ==
    /\ written' = IF ret'.kind = "Ok"
                  THEN [id \in (DOMAIN written) \cup {nextId'} |->
                          IF id = nextId' THEN [bytes |-> data, hash |-> Sign(key, data)]
                          ELSE written[id]]
                  ELSE written
    /\ UNCHANGED <<delivered, callers, evicted>>

ReadHistory(t) ==
    /\ callers' = callers \cup {t}
    /\ delivered' = IF ret'.kind = "Some"
                    THEN [delivered EXCEPT ![t] = @ \cup {op'.id}]
                    ELSE delivered
    /\ evicted' = IF op'.removed THEN evicted \cup {op'.id} ELSE evicted
    /\ written' = IF op'.removed
                  THEN [id \in (DOMAIN written) \ {op'.id} |-> written[id]]
                  ELSE written

\* ---- free use: any calls by any threads -------------------------------------
Free == [mode |-> "free", n |-> 0, cur |-> 0, cnt |-> 0, done |-> {}]

Init ==
    /\ \E n \in 0..MaxReaders, sz \in 0..MaxSize, k \in Keys : New(n, sz, k)
    /\ sched = Free

DoWrite ==
    \E data \in Data : nextId < MaxWrites /\ Write(data) /\ WriteHistory(data) /\ UNCHANGED sched

DoRead == \E t \in Threads : Read(t) /\ ReadHistory(t) /\ UNCHANGED sched

Next == DoWrite \/ DoRead

Spec == Init /\ [][Next]_vars

\* ---- batch run: N writes, then num_readers readers, each N reads in one go ----
\* (tests::it_works keeps the mutex for the whole loop of a reader thread)
BatchInit ==
    /\ \E n \in 1..MaxReaders, sz \in 0..MaxSize, k \in Keys : New(n, sz, k)
    /\ \E N \in 0..MaxSize :
          /\ N <= size
          /\ sched = [mode |-> "batch", n |-> N, cur |-> 0, cnt |-> 0, done |-> {}]

BatchWrite ==
    \E data \in Data : nextId < sched.n /\ Write(data) /\ WriteHistory(data) /\ UNCHANGED sched

BatchRead ==
    \E t \in Threads :
        /\ nextId = sched.n
        /\ sched.n > 0
        /\ \/ sched.cur = t
           \/ /\ sched.cur = 0
              /\ t \notin sched.done
              /\ Cardinality(sched.done) < num_readers
        /\ Read(t)
        /\ ReadHistory(t)
        /\ sched' = IF sched.cnt + 1 = sched.n
                    THEN [sched EXCEPT !.cur = 0, !.cnt = 0, !.done = @ \cup {t}]
                    ELSE [sched EXCEPT !.cur = t, !.cnt = @ + 1]

BatchNext == BatchWrite \/ BatchRead

SpecBatch == BatchInit /\ [][BatchNext]_vars

BatchDone ==
    /\ nextId = sched.n
    /\ sched.n = 0 \/ (sched.cur = 0 /\ Cardinality(sched.done) = num_readers)

\* ---- tests::it_works with the reads of the three threads interleaved ----------
ScenarioInit ==
    /\ \E k \in Keys : New(ScenarioReaders, ScenarioSize, k)
    /\ sched = [mode |-> "scenario", n |-> ScenarioWrites, cur |-> 0, cnt |-> 0, done |-> {}]

\* for x in 0..10 { l.write(format!("Hello my name is {}", x)) }
ScenarioWrite == nextId < sched.n /\ Write(nextId) /\ WriteHistory(nextId) /\ UNCHANGED sched

\* original_thread.join() comes before the readers are spawned; the history of
\* the reads is not kept here, the end state is all that is looked at
ScenarioRead ==
    \E t \in ScenarioThreads :
        nextId = sched.n /\ Read(t) /\ UNCHANGED <<sched, delivered, callers, evicted, written>>

ScenarioNext == ScenarioWrite \/ ScenarioRead

SpecScenario == ScenarioInit /\ [][ScenarioNext]_vars

\* every reader only receives Ok(None) from now on
ScenarioQuiescent ==
    /\ nextId = sched.n
    /\ \A t \in ScenarioThreads :
          ~TooManyReaders(readers, num_readers) /\ AtEnd(messages, ThreadCount(readers, t))

\* ==== properties ================================================================
Ids(msgs) == {msgs[i].id : i \in 1..Len(msgs)}

Registered == DOMAIN readers

\* C1: when a read removes a message, every identity registered in the cursor
\* registry has been delivered that message by one of its own reads
\* (stated for a quorum of at least one reader).
C1_EvictedAfterEveryRegisteredRead ==
    (num_readers >= 1 /\ op.kind = "read" /\ op.removed) =>
        \A t \in Registered : op.id \in delivered[t]

\* C2: it_works scenario (3 readers, capacity 100, 10 messages), the reads of the
\* three readers interleaved in any way: when every reader only receives Ok(None),
\* the buffer is empty (the end state of the run; with only three identities a
\* removal there always is the third read of the message).
C2_ScenarioEndsEmpty == ScenarioQuiescent => Len(messages) = 0

\* C3: N <= capacity messages written, then num_readers >= 1 distinct readers each
\* doing N reads as one uninterrupted batch: every response is valid and the
\* buffer is empty at the end.
C3_BatchRunValidAndEmpty ==
    /\ ret.kind = "Some" => ret.response.is_valid
    /\ BatchDone => Len(messages) = 0

C3_Witness ==
    /\ BatchDone
    /\ sched.n >= 2
    /\ num_readers >= 2
    /\ ret.kind = "Some"
    /\ Cardinality(evicted) = sched.n

\* C4: a message leaves the buffer iff its readCount reaches the quorum: it stays
\* while fewer than num_readers reads were applied to it, the read that brings its
\* count to num_readers removes it in the same call, nothing else removes a
\* message, and a removed message is never returned by a later read.
C4_RemovedIffQuorumReached ==
    [][ /\ \A i \in 1..Len(messages) :
              LET m == messages[i]
                  hit == op'.kind = "read" /\ op'.id = m.id
              IN  IF hit /\ m.readers + 1 >= num_readers
                  THEN /\ m.id \notin Ids(messages')
                       /\ m.id \in evicted'
                       /\ num_readers > 0 => m.readers + 1 = num_readers
                  ELSE /\ m.id \in Ids(messages')
                       /\ m.id \notin evicted'
        /\ (op'.kind = "read" /\ ret'.kind = "Some") => op'.id \notin evicted
        /\ evicted \subseteq evicted'
        /\ Ids(messages') \cap evicted' = {}
      ]_vars

C4_Witness ==
    /\ op.kind = "read"
    /\ op.removed
    /\ num_readers = 2
    /\ \E i \in 1..Len(messages) : messages[i].readers = 1
    /\ \E i \in 1..Len(messages) : messages[i].readers = 0

\* C5: the cursor registry never holds more than num_readers identities
\* (stated for a quorum of at least one reader).
C5_RegistryWithinQuorum == num_readers >= 1 => Cardinality(Registered) <= num_readers

\* C6 (as stated): once more than num_readers distinct identities have called
\* read, every later read returns Err(2) (stated for a quorum of at least one).
C6_RejectedOnceExtraCaller ==
    [][ (num_readers >= 1 /\ Cardinality(callers) > num_readers /\ op'.kind = "read") =>
          ret' = Err(2) ]_vars

\* C6 (amended): once more than num_readers distinct identities are registered
\* (each had a read return a message), the registry stays that way, every later
\* read by any identity returns Err(2), and write behaves as before.
C6_RejectedOnceExtraRegistered ==
    [][ Cardinality(Registered) > num_readers =>
          /\ Cardinality(DOMAIN readers') > num_readers
          /\ op'.kind = "read" => ret' = Err(2)
          /\ op'.kind = "write" =>
                IF Len(messages) >= size
                THEN ret' = Err(1) /\ messages' = messages
                ELSE /\ ret' = OkUnit
                     /\ Len(messages') = Len(messages) + 1
                     /\ SubSeq(messages', 1, Len(messages)) = messages
                     /\ messages'[Len(messages')].readers = 0
      ]_vars

C6_Witness ==
    /\ num_readers >= 1
    /\ Cardinality(Registered) > num_readers
    /\ op.kind = "read"
    /\ op.t \in Registered
    /\ ret = Err(2)
    /\ Len(messages) > 0

\* C7: 0 <= len(buffer) <= capacity in every reachable state.
C7_LenWithinCapacity == Len(messages) >= 0 /\ Len(messages) <= size

C7_Witness ==
    /\ size >= 2
    /\ Len(messages) = size
    /\ op.kind = "write"
    /\ ret = Err(1)

\* C8: a write on a full buffer returns Err(1) and changes neither the buffer
\* (contents and read counts) nor the cursor registry.
C8_FullWriteChangesNothing ==
    [][ (op'.kind = "write" /\ Len(messages) = size) =>
          /\ ret' = Err(1)
          /\ messages' = messages
          /\ readers' = readers
      ]_vars

C8_Witness ==
    /\ op.kind = "write"
    /\ ret = Err(1)
    /\ size >= 1
    /\ Len(messages) = size
    /\ Registered # {}
    /\ \E i \in 1..Len(messages) : messages[i].readers > 0

\* C9: a read by a caller whose cursor equals len(buffer), or on an empty buffer,
\* returns Ok(None) and changes neither the buffer nor the cursor registry
\* (stated for a quorum of at least one reader).
C9_CaughtUpReadIsNone ==
    [][ (num_readers >= 1 /\ op'.kind = "read"
         /\ (Len(messages) = 0 \/ ThreadCount(readers, op'.t) = Len(messages))) =>
          /\ ret' = OkNone
          /\ messages' = messages
          /\ readers' = readers
      ]_vars

\* the invariants of the data model that a state may satisfy
LenInvariant(msgs) == Len(msgs) <= size
CountInvariant(msgs) == \A i \in 1..Len(msgs) : msgs[i].readers <= num_readers
RegistryInvariant(rs) == Cardinality(DOMAIN rs) <= num_readers

IndexOf(msgs, id) == (CHOOSE i \in 1..Len(msgs) : msgs[i].id = id)

\* C11: every message in the buffer has 0 <= readCount <= num_readers; the count
\* is 0 when the message is written and grows by exactly one in a read that
\* returns the message, and in no other call.
C11_ReadCountBounded ==
    [][ /\ CountInvariant(messages)
        /\ CountInvariant(messages')
        /\ \A i \in 1..Len(messages') :
              LET m == messages'[i]
                  before == IF m.id \in Ids(messages)
                            THEN messages[IndexOf(messages, m.id)].readers
                            ELSE 0
                  returned == op'.kind = "read" /\ ret'.kind = "Some" /\ op'.id = m.id
              IN  /\ m.readers >= 0
                  /\ m.readers = before + (IF returned THEN 1 ELSE 0)
      ]_vars

C11_Witness ==
    /\ num_readers = 2
    /\ op.kind = "read"
    /\ ret.kind = "Some"
    /\ ~op.removed
    /\ \E i \in 1..Len(messages) : messages[i].id = op.id /\ messages[i].readers = 1
    /\ \E i \in 1..Len(messages) : messages[i].readers = 0

\* C12: a successful write appends exactly one new message, with readCount 0, at
\* the tail: the length grows by one, the messages already there keep position,
\* payload, tag and readCount, and the cursor registry is unchanged.
C12_WriteAppendsOne ==
    [][ (op'.kind = "write" /\ ret'.kind = "Ok") =>
          /\ Len(messages') = Len(messages) + 1
          /\ SubSeq(messages', 1, Len(messages)) = messages
          /\ LET new == messages'[Len(messages')]
             IN  /\ new.readers = 0
                 /\ new.id \notin Ids(messages)
                 /\ new.bytes = written'[new.id].bytes
                 /\ new.hash = written'[new.id].hash
          /\ readers' = readers
      ]_vars

C12_Witness ==
    /\ op.kind = "write"
    /\ ret.kind = "Ok"
    /\ Len(messages) >= 2
    /\ messages[1].readers > 0
    /\ Registered # {}

\* C13: the buffer is in write order in every state, and a removal by a read keeps
\* the order of the remaining messages: those behind the removed one move one
\* position to the head, those before it stay.
C13_BufferInWriteOrder ==
    [][ /\ \A i, j \in 1..Len(messages') : i < j => messages'[i].id < messages'[j].id
        /\ op'.removed =>
              \E p \in 1..Len(messages) :
                  /\ messages[p].id = op'.id
                  /\ Len(messages') = Len(messages) - 1
                  /\ \A i \in 1..Len(messages') :
                        messages'[i] = IF i < p THEN messages[i] ELSE messages[i + 1]
      ]_vars

C13_Witness ==
    /\ op.kind = "read"
    /\ op.removed
    /\ Len(messages) >= 2
    /\ messages[1].id > op.id

\* C14: a message returned by a read (before or at its eviction) has is_valid
\* true, the bytes that were given to write and the tag that was signed then.
C14_RoundTrip ==
    [][ (op'.kind = "read" /\ ret'.kind = "Some") =>
          /\ op'.id \in DOMAIN written
          /\ ret'.response.is_valid
          /\ ret'.response.message = written[op'.id].bytes
          /\ ret'.response.hash = written[op'.id].hash
          /\ ret'.response.hash = Sign(key, written[op'.id].bytes)
      ]_vars

C14_Witness ==
    /\ op.kind = "read"
    /\ ret.kind = "Some"
    /\ ret.response.is_valid
    /\ ret.response.message = 1
    /\ \E i \in 1..Len(messages) : messages[i].bytes = 0 /\ messages[i].id < op.id

\* the identities a message was returned to
ReadersOf(id) == {t \in DOMAIN delivered : id \in delivered[t]}

\* C16: a read that returns a message returns the one at the caller's cursor; if
\* its count then is >= num_readers it is removed and the caller's stored cursor
\* keeps its value, else the stored cursor is the previous value plus one; the
\* cursor of no other identity changes, also when the removal shifts messages.
C16_CursorUpdate ==
    [][ (op'.kind = "read" /\ ret'.kind = "Some") =>
          LET t == op'.t
              tc == ThreadCount(readers, t)
          IN  /\ tc < Len(messages)
              /\ messages[tc + 1].id = op'.id
              /\ IF messages[tc + 1].readers + 1 >= num_readers
                 THEN /\ op'.removed
                      /\ op'.id \notin Ids(messages')
                      /\ readers'[t] = tc
                 ELSE /\ ~op'.removed
                      /\ op'.id \in Ids(messages')
                      /\ readers'[t] = tc + 1
              /\ DOMAIN readers' = (DOMAIN readers) \cup {t}
              /\ \A u \in (DOMAIN readers) \ {t} : readers'[u] = readers[u]
      ]_vars

C16_Witness ==
    /\ op.kind = "read"
    /\ op.removed
    /\ Len(messages) >= 1
    /\ \E u \in Registered \ {op.t} : readers[u] > readers[op.t] /\ readers[u] <= Len(messages)

\* C17: a read that passes the end-of-buffer check has its cursor strictly below
\* len(buffer), so the index of the message never panics, also with cursors that
\* removals by other readers left beyond the tail.
C17_IndexInBounds ==
    [][ (op'.kind = "read" /\ ret'.kind \in {"Some", "Panic"}) =>
          /\ ThreadCount(readers, op'.t) < Len(messages)
          /\ ret'.kind = "Some"
      ]_vars

C17_Witness ==
    /\ op.kind = "read"
    /\ ret.kind = "Some"
    /\ \E u \in Registered : readers[u] > Len(messages)

\* C18: the registry never holds more than num_readers + 1 identities, an identity
\* enters it only in a read that returns a message, and none ever leaves it.
C18_RegistryGrowth ==
    [][ /\ Cardinality(DOMAIN readers') <= num_readers + 1
        /\ DOMAIN readers \subseteq DOMAIN readers'
        /\ DOMAIN readers' # DOMAIN readers =>
              /\ op'.kind = "read"
              /\ ret'.kind = "Some"
              /\ DOMAIN readers' = (DOMAIN readers) \cup {op'.t}
      ]_vars

C18_Witness ==
    /\ num_readers >= 1
    /\ Cardinality(Registered) = num_readers + 1
    /\ op.kind = "read"
    /\ ret = Err(2)
    /\ op.t \notin Registered

\* C19: the stored cursor of an identity never decreases, and every message
\* returned to an identity was written after all the messages returned to it
\* before: none twice, none older.
C19_DeliveredInOrder ==
    [][ /\ \A u \in DOMAIN readers : readers'[u] >= readers[u]
        /\ (op'.kind = "read" /\ ret'.kind = "Some") =>
              \A id \in delivered[op'.t] : id < op'.id
      ]_vars

C19_Witness ==
    /\ op.kind = "read"
    /\ ret.kind = "Some"
    /\ \E id \in delivered[op.t] : id < op.id
    /\ \E id \in 1..nextId : id < op.id /\ id \notin delivered[op.t]

\* C20: the readCount of a message in the buffer is the number of distinct
\* identities it was returned to, and with a quorum of at least one a message is
\* removed by the read of its num_readers-th distinct identity.
C20_CountIsDistinctReaders ==
    /\ \A i \in 1..Len(messages) :
          messages[i].readers = Cardinality(ReadersOf(messages[i].id))
    /\ (num_readers >= 1 /\ op.kind = "read" /\ op.removed) =>
          Cardinality(ReadersOf(op.id)) = num_readers

C20_Witness ==
    /\ num_readers = 2
    /\ op.kind = "read"
    /\ op.removed
    /\ \E i \in 1..Len(messages) : messages[i].readers = 1

====
